---- MODULE Spec2Model ----
(***************************************************************************)
(* A model of tfetch (src/src/api.ts): requestJson, isNetworkError and     *)
(* isValidStatusCode.  One call of requestJson is followed from the        *)
(* caller's requestParams through the synchronous prefix (merge with the   *)
(* defaults, header and body construction), the race between fetch and the *)
(* timeout timer, and the then/then/catch chain that fills the             *)
(* IJsonStatus returned to the caller.                                     *)
(***************************************************************************)
EXTENDS Integers, Sequences, FiniteSets

(* ---------------------------------------------------------------------- *)
(* Bounds of the model                                                     *)
(* ---------------------------------------------------------------------- *)

\* longest extraHeaders array the caller passes
MaxExtraHeaders == 2

\* longest validStatusCodes array the caller passes
MaxValidCodes == 2

(* ---------------------------------------------------------------------- *)
(* JavaScript values                                                       *)
(* ---------------------------------------------------------------------- *)

\* a JavaScript value: its typeof-like tag and its printed form
JSVal(t, v) == [t |-> t, v |-> v]

Undefined == JSVal("undefined", "")

JSNull == JSVal("null", "")

JSString(s) == JSVal("string", s)

JSNumber(s) == JSVal("number", s)

JSObject(s) == JSVal("object", s)

JSError(name) == JSVal("error", name)

\* ToBoolean, as `body &&` applies it
Truthy(x) ==
  CASE x.t = "undefined" -> FALSE
    [] x.t = "null" -> FALSE
    [] x.t = "number" -> x.v \notin {"0", "NaN"}
    [] x.t = "string" -> x.v # ""
    [] OTHER -> TRUE

\* an object property: own = the key is present, def = its value is not
\* undefined, v = the value (a placeholder of the field's type when undefined)
Absent(d) == [own |-> FALSE, def |-> FALSE, v |-> d]

Undef(d) == [own |-> TRUE, def |-> FALSE, v |-> d]

Val(x) == [own |-> TRUE, def |-> TRUE, v |-> x]

(* ---------------------------------------------------------------------- *)
(* The environment: headers, JSON codec, the values a transport produces   *)
(* ---------------------------------------------------------------------- *)

\* header names Headers.append rejects with a TypeError
InvalidHeaderNames == {"bad name"}

ExtraHeaderChoices ==
  { [key |-> "X-Token", value |-> "t"], [key |-> "bad name", value |-> "x"] }

\* the bodies a caller passes: 0, '', {a:1} and an object that contains itself
BodyValues == { JSNumber("0"), JSString(""), JSObject("{a:1}"), JSObject("cyclic") }

\* JSON.stringify: ok = it returned, text = the JSON text
JSONstringify(x) ==
  CASE x = JSNumber("0") -> [ok |-> TRUE, text |-> "0"]
    [] x = JSString("") -> [ok |-> TRUE, text |-> "\"\""]
    [] x = JSObject("{a:1}") -> [ok |-> TRUE, text |-> "{\"a\":1}"]
    [] OTHER -> [ok |-> FALSE, text |-> ""]

\* the body texts a response carries: a JSON object, JSON null, an empty body
BodyTexts == { "{\"ok\":true}", "null", "" }

\* Response.json(): ok = the promise fulfils, val = its value or its rejection
JSONparse(text) ==
  CASE text = "{\"ok\":true}" -> [ok |-> TRUE, val |-> JSObject("{ok:true}")]
    [] text = "null" -> [ok |-> TRUE, val |-> JSNull]
    [] OTHER -> [ok |-> FALSE, val |-> JSError("SyntaxError")]

\* status codes a transport answers with
StatusCodes == {0, 199, 200, 201, 299, 300, 404}

\* values a transport rejects with
FetchRejections == { JSError("TypeError"), JSString("other") }

Methods == {"GET", "POST", "PUT", "PATCH", "DELETE"}

(* ---------------------------------------------------------------------- *)
(* Pure functions of api.ts                                                *)
(* ---------------------------------------------------------------------- *)

defaultRequestParams ==
  [ method |-> Val("GET"),
    jsonRequest |-> Val(TRUE),
    jsonResponse |-> Val(TRUE),
    validStatusCodeStart |-> Val(200),
    validStatusCodeEnd |-> Val(299),
    timeout |-> Val(10000) ]

\* { ...a, ...b }: every own key of b, whatever its value, replaces a's
ObjectSpread(a, b) ==
  [ k \in (DOMAIN a) \cup (DOMAIN b) |->
      IF k \in DOMAIN b /\ b[k].own THEN b[k]
      ELSE IF k \in DOMAIN a THEN a[k]
      ELSE b[k] ]

isNetworkError(err) == err.t = "string" /\ err.v \in {"timeout", "other"}

\* Array.prototype.find(sc => sc === statusCode): the first matching element
RECURSIVE ArrayFind(_, _)
ArrayFind(arr, statusCode) ==
  IF arr = <<>> THEN [def |-> FALSE, v |-> 0]
  ELSE IF Head(arr) = statusCode THEN [def |-> TRUE, v |-> Head(arr)]
  ELSE ArrayFind(Tail(arr), statusCode)

\* a number used as a condition: undefined and 0 are falsy
TruthyNumber(p) == p.def /\ p.v # 0

\* the found element tested for truthiness instead of against undefined
isValidStatusCodeTruthyFind(statusCode, validation) ==
  IF validation.validStatusCodes.def
  THEN TruthyNumber(ArrayFind(validation.validStatusCodes.v, statusCode))
  ELSE IF TruthyNumber(validation.validStatusCodeStart)
            /\ TruthyNumber(validation.validStatusCodeEnd)
  THEN statusCode >= validation.validStatusCodeStart.v
         /\ statusCode <= validation.validStatusCodeEnd.v
  ELSE FALSE

\* the range consulted even when a set of codes is given
isValidStatusCodeRangeFirst(statusCode, validation) ==
  IF TruthyNumber(validation.validStatusCodeStart)
       /\ TruthyNumber(validation.validStatusCodeEnd)
  THEN statusCode >= validation.validStatusCodeStart.v
         /\ statusCode <= validation.validStatusCodeEnd.v
  ELSE IF validation.validStatusCodes.def
  THEN ArrayFind(validation.validStatusCodes.v, statusCode).def
  ELSE FALSE

\* validStatusCodes first, then a complete non-zero range, else invalid
isValidStatusCode(statusCode, validation) ==
  IF validation.validStatusCodes.def
  THEN ArrayFind(validation.validStatusCodes.v, statusCode).def
  ELSE IF TruthyNumber(validation.validStatusCodeStart)
            /\ TruthyNumber(validation.validStatusCodeEnd)
  THEN statusCode >= validation.validStatusCodeStart.v
         /\ statusCode <= validation.validStatusCodeEnd.v
  ELSE FALSE

\* headers.append(key, value) on the headers built so far
HeadersAppend(h, key, value) ==
  IF ~h.ok \/ key \in InvalidHeaderNames
  THEN [ok |-> FALSE, list |-> h.list]
  ELSE [ok |-> TRUE, list |-> Append(h.list, [key |-> key, value |-> value])]

\* extraHeaders.map(h => headers.append(h.key, h.value))
RECURSIVE AppendAll(_, _)
AppendAll(h, extra) ==
  IF extra = <<>> THEN h
  ELSE AppendAll(HeadersAppend(h, Head(extra).key, Head(extra).value), Tail(extra))

\* new Headers() and the three conditional blocks that fill it
BuildHeaders(pp) ==
  LET h0 == [ok |-> TRUE, list |-> <<>>]
      h1 == IF pp.jsonRequest.def /\ pp.jsonRequest.v
            THEN HeadersAppend(h0, "Content-Type", "application/json") ELSE h0
      h2 == IF pp.jsonResponse.def /\ pp.jsonResponse.v
            THEN HeadersAppend(h1, "Accept", "application/json") ELSE h1
  IN  IF pp.extraHeaders.def THEN AppendAll(h2, pp.extraHeaders.v) ELSE h2

\* body && (method === 'POST' || method === 'PATCH' || method === 'DELETE')
BodyIsSent(pp) ==
  /\ pp.body.def /\ Truthy(pp.body.v)
  /\ pp.method.def /\ pp.method.v \in {"POST", "PATCH", "DELETE"}

\* a race that lets a later settlement replace the first
RaceSettleLastWins(r, state, val) == [state |-> state, val |-> val]

\* Promise.race: the first settlement of an input settles the race for good
RaceSettle(r, state, val) ==
  IF r.state = "pending" THEN [state |-> state, val |-> val] ELSE r

\* the second then with the two branches swapped
Then2StatusSwapped(st, json, valid) ==
  IF valid THEN [st EXCEPT !.errorData = json] ELSE [st EXCEPT !.data = json]

\* the second then: data on a valid status code, errorData otherwise
Then2Status(st, json, valid) ==
  IF valid THEN [st EXCEPT !.data = json] ELSE [st EXCEPT !.errorData = json]

\* a catch that also files the rejection under data
CatchStatusAlsoData(st, err) ==
  IF isNetworkError(err) THEN [st EXCEPT !.networkError = err, !.data = err]
  ELSE [st EXCEPT !.errorData = err]

\* the catch: a network error literal, or anything else as errorData
CatchStatus(st, err) ==
  IF isNetworkError(err) THEN [st EXCEPT !.networkError = err]
  ELSE [st EXCEPT !.errorData = err]

(* ---------------------------------------------------------------------- *)
(* The inputs of one call                                                  *)
(* ---------------------------------------------------------------------- *)

RECURSIVE SeqsUpTo(_, _)
SeqsUpTo(S, n) ==
  IF n = 0 THEN { <<>> }
  ELSE LET shorter == SeqsUpTo(S, n - 1)
       IN  shorter \cup { Append(q, x) : q \in { r \in shorter : Len(r) = n - 1 }, x \in S }

\* a requestParams object with only url set
BaseParams ==
  [ url |-> Val("https://x/y"),
    method |-> Absent(""),
    body |-> Absent(Undefined),
    extraHeaders |-> Absent(<<>>),
    jsonRequest |-> Absent(FALSE),
    jsonResponse |-> Absent(FALSE),
    validStatusCodes |-> Absent(<<>>),
    validStatusCodeStart |-> Absent(0),
    validStatusCodeEnd |-> Absent(0),
    timeout |-> Absent(0) ]

\* callers that set, leave out, or set to undefined each defaulted field
MergeInputs ==
  { [BaseParams EXCEPT !.method = m, !.jsonRequest = jq, !.jsonResponse = jr,
                       !.validStatusCodeStart = s, !.validStatusCodeEnd = e,
                       !.timeout = t] :
      m \in {Absent(""), Undef(""), Val("POST")},
      jq \in {Absent(FALSE), Undef(FALSE), Val(FALSE)},
      jr \in {Absent(FALSE), Undef(FALSE), Val(FALSE)},
      s \in {Absent(0), Undef(0), Val(201)},
      e \in {Absent(0), Undef(0), Val(300)},
      t \in {Absent(0), Undef(0), Val(50)} }

\* callers that vary the status code validation
ValidationInputs ==
  { [BaseParams EXCEPT !.validStatusCodes = c, !.validStatusCodeStart = s,
                       !.validStatusCodeEnd = e, !.jsonResponse = jr] :
      c \in {Absent(<<>>)} \cup { Val(q) : q \in SeqsUpTo({0, 200, 201}, MaxValidCodes) },
      s \in {Absent(0), Undef(0), Val(0), Val(200), Val(300)},
      e \in {Absent(0), Undef(0), Val(0), Val(299), Val(199)},
      jr \in {Absent(FALSE), Val(FALSE)} }

\* callers that vary the method, the body and the extra headers
BuildInputs ==
  { [BaseParams EXCEPT !.method = m, !.body = b, !.extraHeaders = x, !.jsonRequest = jq] :
      m \in {Absent(""), Undef("")} \cup { Val(mm) : mm \in Methods },
      b \in {Absent(Undefined)} \cup { Val(bb) : bb \in BodyValues },
      x \in {Absent(<<>>)} \cup { Val(q) : q \in SeqsUpTo(ExtraHeaderChoices, MaxExtraHeaders) },
      jq \in {Absent(FALSE), Val(FALSE)} }

Inputs == MergeInputs \cup ValidationInputs \cup BuildInputs

(* ---------------------------------------------------------------------- *)
(* One call of requestJson                                                 *)
(* ---------------------------------------------------------------------- *)

VARIABLES
  requestParams,    \* the argument of the call
  processedParams,  \* { ...defaultRequestParams, ...requestParams }
  params,           \* the RequestInit handed to fetch
  statusResponse,   \* the IJsonStatus being filled
  fetchState,       \* the fetch promise: idle, pending, fulfilled, rejected
  timerState,       \* the setTimeout timer: idle, armed, fired
  race,             \* the Promise.race promise
  response,         \* the Response fetch fulfilled with
  json,             \* the value the first then hands on, or the rejection on its way to catch
  validStatusCode,  \* the local of the second then
  pc,               \* idle, thrown, racing, parsing, then2, catch, resolved
  winner            \* history: which of fetch and timer settled first

vars == << requestParams, processedParams, params, statusResponse, fetchState,
           timerState, race, response, json, validStatusCode, pc, winner >>

EmptyStatus ==
  [ data |-> Undefined, errorData |-> Undefined, networkError |-> Undefined,
    statusCode |-> [def |-> FALSE, v |-> 0] ]

NoParams == [ method |-> Absent(""), headers |-> <<>>, body |-> Absent("") ]

NoResponse == [ status |-> 0, body |-> "" ]

Init ==
  /\ requestParams \in Inputs
  /\ processedParams = BaseParams
  /\ params = NoParams
  /\ statusResponse = EmptyStatus
  /\ fetchState = "idle"
  /\ timerState = "idle"
  /\ race = [state |-> "none", val |-> Undefined]
  /\ response = NoResponse
  /\ json = Undefined
  /\ validStatusCode = [def |-> FALSE, v |-> FALSE]
  /\ pc = "idle"
  /\ winner = "none"

\* the synchronous part of requestJson: merge, headers, body, then fetch and
\* setTimeout are started; an exception of Headers.append or JSON.stringify
\* leaves the function before the promise exists
Call ==
  /\ pc = "idle"
  /\ LET pp == ObjectSpread(defaultRequestParams, requestParams)
         h == BuildHeaders(pp)
         send == BodyIsSent(pp)
         text == JSONstringify(pp.body.v)
     IN  /\ processedParams' = pp
         /\ IF ~h.ok \/ (send /\ ~text.ok)
            THEN /\ pc' = "thrown"
                 /\ UNCHANGED << params, fetchState, timerState, race >>
            ELSE /\ params' = [ method |-> pp.method, headers |-> h.list,
                                body |-> IF send THEN Val(text.text) ELSE Absent("") ]
                 /\ fetchState' = "pending"
                 /\ timerState' = "armed"
                 /\ race' = [state |-> "pending", val |-> Undefined]
                 /\ pc' = "racing"
  /\ UNCHANGED << requestParams, statusResponse, response, json, validStatusCode, winner >>

\* the transport answers: the fetch promise fulfils with a Response
FetchFulfil ==
  /\ fetchState = "pending"
  /\ \E s \in StatusCodes, b \in BodyTexts :
       /\ response' = [status |-> s, body |-> b]
       /\ race' = RaceSettle(race, "fulfilled", JSVal("response", b))
  /\ fetchState' = "fulfilled"
  /\ winner' = IF winner = "none" THEN "fetch" ELSE winner
  /\ UNCHANGED << requestParams, processedParams, params, statusResponse, timerState,
                  json, validStatusCode, pc >>

\* the transport fails: the fetch promise rejects
FetchReject ==
  /\ fetchState = "pending"
  /\ \E e \in FetchRejections : race' = RaceSettle(race, "rejected", e)
  /\ fetchState' = "rejected"
  /\ winner' = IF winner = "none" THEN "fetch" ELSE winner
  /\ UNCHANGED << requestParams, processedParams, params, statusResponse, timerState,
                  response, json, validStatusCode, pc >>

\* a timer callback that files the timeout itself, whatever the race says
TimerFireWritesStatus ==
  /\ timerState = "armed"
  /\ race' = RaceSettle(race, "rejected", JSString("timeout"))
  /\ timerState' = "fired"
  /\ winner' = IF winner = "none" THEN "timer" ELSE winner
  /\ statusResponse' = [statusResponse EXCEPT !.networkError = JSString("timeout")]
  /\ UNCHANGED << requestParams, processedParams, params, fetchState,
                  response, json, validStatusCode, pc >>

\* the setTimeout callback: reject('timeout')
TimerFire ==
  /\ timerState = "armed"
  /\ race' = RaceSettle(race, "rejected", JSString("timeout"))
  /\ timerState' = "fired"
  /\ winner' = IF winner = "none" THEN "timer" ELSE winner
  /\ UNCHANGED << requestParams, processedParams, params, statusResponse, fetchState,
                  response, json, validStatusCode, pc >>

\* the first then: record the status code, start response.json() or pass the Response on
Then1 ==
  /\ pc = "racing"
  /\ race.state = "fulfilled"
  /\ statusResponse' = [statusResponse EXCEPT !.statusCode = [def |-> TRUE, v |-> response.status]]
  /\ IF processedParams.jsonResponse.def /\ processedParams.jsonResponse.v
     THEN pc' = "parsing" /\ UNCHANGED json
     ELSE pc' = "then2" /\ json' = race.val
  /\ UNCHANGED << requestParams, processedParams, params, fetchState, timerState, race,
                  response, validStatusCode, winner >>

\* response.json() settles: the parsed value, or a SyntaxError on its way to catch
JsonSettle ==
  /\ pc = "parsing"
  /\ LET r == JSONparse(response.body)
     IN  /\ json' = r.val
         /\ pc' = IF r.ok THEN "then2" ELSE "catch"
  /\ UNCHANGED << requestParams, processedParams, params, statusResponse, fetchState,
                  timerState, race, response, validStatusCode, winner >>

\* the second then: validate the status code, file the payload, resolve
Then2 ==
  /\ pc = "then2"
  /\ LET valid == isValidStatusCode(statusResponse.statusCode.v,
                    [ validStatusCodes |-> processedParams.validStatusCodes,
                      validStatusCodeStart |-> processedParams.validStatusCodeStart,
                      validStatusCodeEnd |-> processedParams.validStatusCodeEnd ])
     IN  /\ validStatusCode' = [def |-> TRUE, v |-> valid]
         /\ statusResponse' = Then2Status(statusResponse, json, valid)
  /\ pc' = "resolved"
  /\ UNCHANGED << requestParams, processedParams, params, fetchState, timerState, race,
                  response, json, winner >>

\* the catch: reached by a rejected race or a rejected response.json()
Catch ==
  /\ \/ pc = "racing" /\ race.state = "rejected"
     \/ pc = "catch"
  /\ LET err == IF pc = "catch" THEN json ELSE race.val
     IN  statusResponse' = CatchStatus(statusResponse, err)
  /\ pc' = "resolved"
  /\ UNCHANGED << requestParams, processedParams, params, fetchState, timerState, race,
                  response, json, validStatusCode, winner >>

Next ==
  \/ Call
  \/ FetchFulfil
  \/ FetchReject
  \/ TimerFire
  \/ Then1
  \/ JsonSettle
  \/ Then2
  \/ Catch

Spec == Init /\ [][Next]_vars

\* the event loop runs every ready callback and the timer fires; nothing is
\* assumed of the transport or of the body read
SpecFair ==
  /\ Spec
  /\ WF_vars(Call)
  /\ WF_vars(TimerFire)
  /\ WF_vars(Then1)
  /\ WF_vars(Then2)
  /\ WF_vars(Catch)

(* ---------------------------------------------------------------------- *)
(* Vocabulary of the claims                                                *)
(* ---------------------------------------------------------------------- *)

Resolved == pc = "resolved"

IsSet(x) == x # Undefined

\* the race was won by a Response
ResponseReceived == winner = "fetch" /\ fetchState = "fulfilled"

\* the merged configuration is the default validation: no set, 200 to 299
DefaultValidation ==
  /\ ~processedParams.validStatusCodes.def
  /\ processedParams.validStatusCodeStart = Val(200)
  /\ processedParams.validStatusCodeEnd = Val(299)

JsonResponseOn == processedParams.jsonResponse = Val(TRUE)

Elements(arr) == { arr[i] : i \in 1..Len(arr) }

\* the status code lies outside the set, or outside the complete range, that is configured
OutsideConfigured(code) ==
  IF processedParams.validStatusCodes.def
  THEN code \notin Elements(processedParams.validStatusCodes.v)
  ELSE /\ processedParams.validStatusCodeStart.def
       /\ processedParams.validStatusCodeEnd.def
       /\ processedParams.validStatusCodeStart.v # 0
       /\ processedParams.validStatusCodeEnd.v # 0
       /\ \/ code < processedParams.validStatusCodeStart.v
          \/ code > processedParams.validStatusCodeEnd.v

\* the reference validation of the specification
ReferenceValid(code) ==
  IF processedParams.validStatusCodes.def
  THEN code \in Elements(processedParams.validStatusCodes.v)
  ELSE IF /\ processedParams.validStatusCodeStart.def
          /\ processedParams.validStatusCodeEnd.def
          /\ processedParams.validStatusCodeStart.v # 0
          /\ processedParams.validStatusCodeEnd.v # 0
  THEN code \in processedParams.validStatusCodeStart.v .. processedParams.validStatusCodeEnd.v
  ELSE FALSE

(* ---------------------------------------------------------------------- *)
(* Claims                                                                  *)
(* ---------------------------------------------------------------------- *)

\* C1: requestJson never throws to its caller: no call ends in an exception
\* raised while the headers are built or the body is serialized.
C1_NeverThrows == pc # "thrown"

\* C2: when the timer fires before the network call settles, the call
\* resolves with networkError = 'timeout' and neither data nor errorData.
C2_TimeoutFirst ==
  (Resolved /\ winner = "timer") =>
    /\ statusResponse.networkError = JSString("timeout")
    /\ ~IsSet(statusResponse.data)
    /\ ~IsSet(statusResponse.errorData)

\* a call resolved by the timer while the network call is still pending
C2_Witness == Resolved /\ winner = "timer" /\ fetchState = "pending"

\* C3 as stated: with jsonResponse true and the default validation, a response
\* with a status code in 200..299 gives data, no errorData, no networkError
\* and the response's status code.
C3_Original ==
  (/\ Resolved /\ ResponseReceived /\ JsonResponseOn /\ DefaultValidation
   /\ response.status \in 200..299)
  => /\ IsSet(statusResponse.data)
     /\ ~IsSet(statusResponse.errorData)
     /\ ~IsSet(statusResponse.networkError)
     /\ statusResponse.statusCode = [def |-> TRUE, v |-> response.status]

\* C3 amended: the same, for the responses whose body parses as JSON.
C3_ParsedSuccess ==
  (/\ Resolved /\ ResponseReceived /\ JsonResponseOn /\ DefaultValidation
   /\ response.status \in 200..299
   /\ JSONparse(response.body).ok)
  => /\ IsSet(statusResponse.data)
     /\ statusResponse.data = JSONparse(response.body).val
     /\ ~IsSet(statusResponse.errorData)
     /\ ~IsSet(statusResponse.networkError)
     /\ statusResponse.statusCode = [def |-> TRUE, v |-> response.status]

\* a 201 with a JSON object body, resolved under the defaults
C3_Witness ==
  /\ Resolved /\ ResponseReceived /\ JsonResponseOn /\ DefaultValidation
  /\ response.status = 201
  /\ statusResponse.data = JSObject("{ok:true}")

\* C4: a response whose status code is outside the configured valid set or
\* range gives errorData and no data.
C4_InvalidStatus ==
  (Resolved /\ ResponseReceived /\ OutsideConfigured(response.status))
  => /\ IsSet(statusResponse.errorData)
     /\ ~IsSet(statusResponse.data)

\* a 200 answered to a caller that accepts only 201, filed under errorData
C4_Witness ==
  /\ Resolved /\ ResponseReceived
  /\ processedParams.validStatusCodes = Val(<<201>>)
  /\ response.status = 200
  /\ statusResponse.errorData = JSObject("{ok:true}")

\* C5: the validation computed by the second then agrees with the reference:
\* membership when a set is given (the range ignored), the inclusive range
\* when both bounds are given and non-zero, invalid otherwise.
C5_ValidationReference ==
  validStatusCode.def => (validStatusCode.v <=> ReferenceValid(statusResponse.statusCode.v))

\* a code accepted by the set although the default range excludes it
C5_Witness ==
  /\ validStatusCode = [def |-> TRUE, v |-> TRUE]
  /\ processedParams.validStatusCodes.def
  /\ statusResponse.statusCode.v = 0

\* C6: the request carries a payload exactly when a body is present and the
\* method is POST, PATCH or DELETE, and the payload is the body's JSON text.
C6_PayloadIffBody ==
  (pc \notin {"idle", "thrown"}) =>
    /\ params.body.def <=>
         (/\ requestParams.body.def
          /\ processedParams.method.def
          /\ processedParams.method.v \in {"POST", "PATCH", "DELETE"})
    /\ params.body.def => params.body.v = JSONstringify(requestParams.body.v).text

\* C7: after the merge a defined caller value overrides the default and an
\* explicit undefined leaves the default in place.
C7_UndefinedKeepsDefault ==
  (pc # "idle") =>
    \A k \in DOMAIN defaultRequestParams :
      processedParams[k] =
        IF requestParams[k].own /\ requestParams[k].def
        THEN requestParams[k] ELSE defaultRequestParams[k]

\* C8: at most one of data, errorData and networkError is populated, in every
\* state of the call.
C8_AtMostOne ==
  Cardinality({ f \in {"data", "errorData", "networkError"} : IsSet(statusResponse[f]) }) <= 1

\* a response was received, its body failed to parse, the catch filed the error
C8_Witness ==
  /\ Resolved
  /\ statusResponse.statusCode.def
  /\ statusResponse.errorData = JSError("SyntaxError")

\* C9: a call whose race has started eventually resolves, the timer firing
\* being all that is assumed.
C9_EventuallyResolves == (pc = "racing") ~> Resolved

\* C10: the first of the network call and the timer to settle fixes the
\* outcome; the later one changes neither the race nor the IJsonStatus, and
\* no field of the IJsonStatus is written twice.
C10_FirstWins ==
  [][ /\ \A f \in {"data", "errorData", "networkError"} :
           statusResponse'[f] # statusResponse[f] => ~IsSet(statusResponse[f])
      /\ statusResponse'.statusCode # statusResponse.statusCode
           => ~statusResponse.statusCode.def
      /\ race.state \in {"fulfilled", "rejected"} => race' = race
      /\ Resolved => statusResponse' = statusResponse
      /\ pc' = "resolved" =>
           (winner' = "timer" <=> statusResponse'.networkError = JSString("timeout")) ]_vars

\* the network call answers after the timeout has resolved the call
C10_Witness ==
  /\ Resolved /\ winner = "timer"
  /\ fetchState = "fulfilled" /\ timerState = "fired"
  /\ statusResponse.networkError = JSString("timeout")
  /\ ~statusResponse.statusCode.def

====
